---- MODULE Spec2Model ----
(***************************************************************************)
(* Model of the unreq cancellation registry: the in-memory backend         *)
(* (src/inMemoryCancellationRegistry.ts) and the Redis backend             *)
(* (src/redisCancellationRegistry.ts), selected by                         *)
(* createCancellationRegistry (src/index.ts).                              *)
(*                                                                         *)
(* JavaScript runs one synchronous segment at a time: every action of the  *)
(* in-memory backend is the code between two awaits.  Every Redis command  *)
(* (get, set, del) is one atomic step of the store, and the calls of       *)
(* several clients interleave between their commands.                      *)
(***************************************************************************)
EXTENDS Naturals, Sequences, FiniteSets, Bags

\* ------------------------------------------------------------------ bounds
MaxRegs     == 2   \* register calls in a run
MaxCalls    == 2   \* calls suspended at an await at the same time
MaxHooks    == 2   \* hook invocations per request id between two register calls
ttlSeconds  == 2   \* the ttlSeconds argument of the constructors

Ids    == {"r1", "r2"}          \* request ids
OneId  == {"r1"}                \* the request id the calls of Spec, MemFairSpec and HistSpec use
DbIds  == {"op1", "op2"}        \* database identifiers handed to associateDbIdentifier
HookOutcomes == {"true", "false", "reject"}   \* how the user's hook settles

\* ------------------------------------------------------------- JS values
Undefined   == "undefined"
Null        == <<>>
MsPerSecond == 1000
keyPrefix   == "unreq:"

\* { status: 'active' }
NewEntry == [status |-> "active", dbIdentifier |-> Undefined]

\* An identifier that is no JSON value: a Date object.
ADate == "new Date(0)"

\* the JSON text of an identifier: JSON.stringify writes a Date as the string
\* its toJSON method returns, a string as itself
toJSON(value) == IF value = ADate THEN "1970-01-01T00:00:00.000Z" ELSE value

\* JSON.stringify of an entry: a property whose value is undefined is left out.
Stringify(entry) ==
    IF entry.dbIdentifier = Undefined
    THEN << <<"status", entry.status>> >>
    ELSE << <<"status", entry.status>>, <<"dbIdentifier", toJSON(entry.dbIdentifier)>> >>

\* JSON.parse: a property the text does not have reads as undefined.
Parse(json) ==
    [status       |-> json[1][2],
     dbIdentifier |-> IF Len(json) > 1 THEN json[2][2] ELSE Undefined]

\* A getKey that leaves the request id out of the key.
getKey_NoId(requestId) == <<keyPrefix, "">>

\* `${this.keyPrefix}${requestId}`
getKey(requestId) == <<keyPrefix, requestId>>

Keys == {getKey(id) : id \in Ids}

\* ------------------------------------------------------------------ state
VARIABLES
    config,     \* the LibraryConfig handed to createCancellationRegistry
    backend,    \* which registry createCancellationRegistry built ("none": it threw)
    entries,    \* in-memory: Map requestId -> entry object (NoEntry: no entry)
    timeouts,   \* in-memory: the timers setTimeout armed that neither fired nor were cleared
    timers,     \* in-memory: Map requestId -> timer handle (0: none)
    store,      \* redis: key -> [value, ttl], ttl the seconds the key has left
    calls,      \* bag of the calls suspended at an await
    hookLog,    \* history: requestId -> the dbIdentifier arguments of the hook's invocations
                \* with that id since its latest register call, in order
    regs,       \* history: requestId -> register(requestId) calls so far
    first,      \* history: requestId -> which of markForCancellation(requestId) and
                \* markAsFinished(requestId) was called first since the latest
                \* register(requestId) ("none": neither, or never registered);
                \* written by the specification that records it (HistSpec), left
                \* alone by the others
    otel,       \* the OTelIntegration of createAutoCancellationMiddleware: whether
                \* there is one, its spansByRequestId and the events its spans got
    http,       \* the middleware and the HTTP request it handled: the header the
                \* request carried, req.requestId, the response header, the
                \* listeners attached and fired, and (history) the registry calls
                \* the middleware and its listeners made, in order
    twin,       \* a caller that makes every call twice, on an in-memory registry
                \* and then on a redis registry: the call it is making, whose turn
                \* it is, and what the call returned and invoked on each registry
    ret         \* the outcome of the call or timer callback the last step completed
                \* (NoRet: it completed none)

vars == <<config, backend, entries, timeouts, timers, store, calls,
          hookLog, regs, first, otel, http, twin, ret>>

NoRet == [op |-> "none", requestId |-> "none", outcome |-> "none", value |-> "none"]

Returned(op, id, value) == [op |-> op, requestId |-> id, outcome |-> "returned", value |-> value]
Threw(op, id) == [op |-> op, requestId |-> id, outcome |-> "threw", value |-> "Error"]

\* the callback register handed to setTimeout has run for id
Expired(id) == Returned("expiry timer", id, "void")

\* An entry object of the in-memory map.  ref is the object's identity (which
\* register call of its request id created it): two JS references are the same
\* object exactly when their ref is equal.  An object that neither the map nor
\* a suspended call refers to is garbage and is not part of the state.
NoEntry == [ref |-> 0, status |-> "finished", dbIdentifier |-> Undefined]

\* new object { status: 'active' }, at address ref
NewObject(ref) == [ref |-> ref, status |-> "active", dbIdentifier |-> Undefined]

\* A key the store does not hold.
NoKey == [value |-> Null, ttl |-> 0]

\* The LibraryConfig: registry.type is absent, 'in-memory' or 'redis';
\* registry.redisClient is absent, a client, or an object with no set method.
Configs ==
    [dbCancellationHook : {"hook"},
     type : {Undefined, "in-memory", "redis"},
     redisClient : {Undefined, "client", "options"},
     ttlSeconds : {ttlSeconds}]

\* what a constructor that throws leaves: no registry
NoRegistry == [type |-> "none", hook |-> Undefined, redisClient |-> Undefined, ttl |-> 0]

\* new InMemoryCancellationRegistry(hook, ttlSeconds): ttl in milliseconds
InMemoryCancellationRegistry(hook, ttl) ==
    [type |-> "in-memory", hook |-> hook, redisClient |-> Undefined, ttl |-> ttl * MsPerSecond]

\* new RedisCancellationRegistry(hook, redisOptions, ttlSeconds): throws unless
\* redisOptions is an object with a set method.
RedisCancellationRegistry(hook, redisOptions, ttl) ==
    IF redisOptions = "client"
    THEN [type |-> "redis", hook |-> hook, redisClient |-> redisOptions, ttl |-> ttl]
    ELSE NoRegistry

\* A createCancellationRegistry that falls back to the in-memory registry when
\* type is 'redis' and no client is given.
createCancellationRegistry_Fallback(cfg) ==
    LET registryType == IF cfg.type = Undefined THEN "in-memory" ELSE cfg.type IN
      IF registryType = "redis" /\ cfg.redisClient # Undefined
      THEN RedisCancellationRegistry(cfg.dbCancellationHook, cfg.redisClient, cfg.ttlSeconds)
      ELSE InMemoryCancellationRegistry(cfg.dbCancellationHook, cfg.ttlSeconds)

\* createCancellationRegistry(config): the registry it returns, NoRegistry when
\* it throws.
createCancellationRegistry(cfg) ==
    LET registryType == IF cfg.type = Undefined THEN "in-memory" ELSE cfg.type IN
      IF registryType = "redis"
      THEN IF cfg.redisClient = Undefined
           THEN NoRegistry
           ELSE RedisCancellationRegistry(cfg.dbCancellationHook, cfg.redisClient,
                                          cfg.ttlSeconds)
      ELSE InMemoryCancellationRegistry(cfg.dbCancellationHook, cfg.ttlSeconds)

\* const otel = null: no integration, no span, no event
NoOTel == [exists |-> FALSE, spansByRequestId |-> {}, events |-> <<>>]

\* before createAutoCancellationMiddleware: no middleware, no request handled
NoMiddleware ==
    [created |-> FALSE, headerId |-> Undefined, uuid |-> Undefined,
     requestId |-> Undefined, responseHeader |-> Undefined,
     next |-> FALSE, listeners |-> {}, fired |-> {}, registryCalls |-> <<>>,
     wrapperCalls |-> 0, handlerCalls |-> 0]

\* the outcome of no call: nothing returned, no hook invoked
NoResult == [ret |-> NoRet, hooks |-> <<>>]

\* the caller of two registries between two calls
NoTwin ==
    [phase |-> "idle",
     call |-> [op |-> "none", requestId |-> "none", dbIdentifier |-> Undefined,
               outcome |-> "none"],
     mem |-> NoResult,
     redis |-> NoResult]

Init ==
    /\ config \in Configs
    /\ backend = createCancellationRegistry(config).type
    /\ entries = [id \in Ids |-> NoEntry]
    /\ timeouts = {}
    /\ timers = [id \in Ids |-> 0]
    /\ store = [k \in Keys |-> NoKey]
    /\ calls = EmptyBag
    /\ hookLog = [id \in Ids |-> <<>>]
    /\ regs = [id \in Ids |-> 0]
    /\ first = [id \in Ids |-> "none"]
    /\ otel = NoOTel
    /\ http = NoMiddleware
    /\ twin = NoTwin
    /\ ret = NoRet

\* seconds left of this.ttl milliseconds (ttlSeconds * 1000) on a new timer
MemTtl == InMemoryCancellationRegistry("hook", ttlSeconds).ttl \div MsPerSecond

InFlight == BagCardinality(calls)

RECURSIVE Sum(_, _)
Sum(f, S) == IF S = {} THEN 0 ELSE LET x == CHOOSE y \in S : TRUE IN f[x] + Sum(f, S \ {x})

\* register calls so far, whatever their request id
TotalRegs == Sum(regs, Ids)

Suspend(call) == calls' = calls (+) SetToBag({call})
Resume(call, next) == calls' = (calls (-) SetToBag({call})) (+) SetToBag({next})
Complete(call) == calls' = calls (-) SetToBag({call})

\* this.hook(requestId, dbIdentifier)
InvokeHook(requestId, dbIdentifier) ==
    hookLog' = [hookLog EXCEPT ![requestId] = Append(@, dbIdentifier)]

\* ------------------------------------------------------ in-memory backend
\* this.entries.get(requestId) is undefined
Absent(entry) == entry.ref = 0

\* entry?.status ?? 'finished'
MemStatus(ents, requestId) ==
    IF Absent(ents[requestId]) THEN "finished" ELSE ents[requestId].status

\* A write that puts the object back into the map when the map no longer
\* holds it.
WriteStatus_Reinsert(ents, requestId, ref, status) ==
    IF ents[requestId].ref = ref
    THEN [ents EXCEPT ![requestId].status = status]
    ELSE [ents EXCEPT ![requestId] = [ref |-> ref, status |-> status,
                                      dbIdentifier |-> Undefined]]

\* entry.status = status, through a reference held across an await: the map
\* shows the write only while it still holds that same object.
WriteStatus(ents, requestId, ref, status) ==
    IF ents[requestId].ref = ref
    THEN [ents EXCEPT ![requestId].status = status]
    ELSE ents

\* A register that arms no expiry timer.
MemRegister_NoTimer(requestId) ==
    /\ backend = "in-memory"
    /\ TotalRegs < MaxRegs
    /\ entries' = [entries EXCEPT ![requestId] = NewObject(regs[requestId] + 1)]
    /\ regs' = [regs EXCEPT ![requestId] = @ + 1]
    /\ hookLog' = [hookLog EXCEPT ![requestId] = <<>>]
    /\ ret' = Returned("register", requestId, "void")
    /\ UNCHANGED <<backend, timeouts, timers, store, calls>>

MemRegister(requestId) ==
    /\ backend = "in-memory"
    /\ TotalRegs < MaxRegs
    /\ entries' = [entries EXCEPT ![requestId] = NewObject(regs[requestId] + 1)]
    /\ timeouts' = timeouts \cup
                     {[handle |-> regs[requestId] + 1,
                       requestId |-> requestId,
                       remaining |-> MemTtl]}
    /\ timers' = [timers EXCEPT ![requestId] = regs[requestId] + 1]
    /\ regs' = [regs EXCEPT ![requestId] = @ + 1]
    /\ hookLog' = [hookLog EXCEPT ![requestId] = <<>>]
    /\ ret' = Returned("register", requestId, "void")
    /\ UNCHANGED <<backend, store, calls>>

\* The callback handed to setTimeout in register.
MemTimerFire(t) ==
    /\ backend = "in-memory"
    /\ t \in timeouts
    /\ t.remaining = 0
    /\ entries' = [entries EXCEPT ![t.requestId] = NoEntry]
    /\ timers' = [timers EXCEPT ![t.requestId] = 0]
    /\ timeouts' = timeouts \ {t}
    /\ ret' = Expired(t.requestId)
    /\ UNCHANGED <<backend, store, calls, hookLog, regs>>

\* A markForCancellation that returns early on an absent entry only, whatever
\* the status of a present one.
MemMarkForCancellation_NoStatusCheck(requestId) ==
    /\ backend = "in-memory"
    /\ LET entry == entries[requestId] IN
         IF Absent(entry)
         THEN /\ ret' = Returned("markForCancellation", requestId, "void")
              /\ UNCHANGED <<entries, calls, hookLog>>
         ELSE IF entry.dbIdentifier # Undefined
         THEN /\ InFlight < MaxCalls
              /\ Len(hookLog[requestId]) < MaxHooks
              /\ entries' = [entries EXCEPT ![requestId].status = "cancelling"]
              /\ InvokeHook(requestId, entry.dbIdentifier)
              /\ Suspend([op |-> "markForCancellation", pc |-> "hook", requestId |-> requestId,
                          entry |-> [ref |-> entry.ref]])
              /\ ret' = NoRet
         ELSE /\ entries' = [entries EXCEPT ![requestId].status = "cancelled"]
              /\ ret' = Returned("markForCancellation", requestId, "void")
              /\ UNCHANGED <<calls, hookLog>>
    /\ UNCHANGED <<backend, timeouts, timers, store, regs>>

\* markForCancellation up to its await (or to its end when it awaits nothing).
MemMarkForCancellation(requestId) ==
    /\ backend = "in-memory"
    /\ LET entry == entries[requestId] IN
         IF Absent(entry) \/ entry.status # "active"
         THEN /\ ret' = Returned("markForCancellation", requestId, "void")
              /\ UNCHANGED <<entries, calls, hookLog>>
         ELSE IF entry.dbIdentifier # Undefined
         THEN /\ InFlight < MaxCalls
              /\ Len(hookLog[requestId]) < MaxHooks
              /\ entries' = [entries EXCEPT ![requestId].status = "cancelling"]
              /\ InvokeHook(requestId, entry.dbIdentifier)
              /\ Suspend([op |-> "markForCancellation", pc |-> "hook", requestId |-> requestId,
                          entry |-> [ref |-> entry.ref]])
              /\ ret' = NoRet
         ELSE /\ entries' = [entries EXCEPT ![requestId].status = "cancelled"]
              /\ ret' = Returned("markForCancellation", requestId, "void")
              /\ UNCHANGED <<calls, hookLog>>
    /\ UNCHANGED <<backend, timeouts, timers, store, regs>>

\* A settling that writes the status into whatever entry the map holds for the
\* request id at that moment.
MemHookSettles_ByKey(call, outcome) ==
    /\ backend = "in-memory"
    /\ call \in BagToSet(calls)
    /\ call.pc = "hook"
    /\ Complete(call)
    /\ IF outcome = "reject"
       THEN /\ ret' = Threw("markForCancellation", call.requestId)
            /\ UNCHANGED entries
       ELSE /\ entries' = IF Absent(entries[call.requestId])
                          THEN entries
                          ELSE [entries EXCEPT ![call.requestId].status = "cancelled"]
            /\ ret' = Returned("markForCancellation", call.requestId, "void")
    /\ UNCHANGED <<backend, timeouts, timers, store, hookLog, regs>>

\* The hook settles and markForCancellation runs from its await to its end.
MemHookSettles(call, outcome) ==
    /\ backend = "in-memory"
    /\ call \in BagToSet(calls)
    /\ call.pc = "hook"
    /\ Complete(call)
    /\ IF outcome = "reject"
       THEN /\ ret' = Threw("markForCancellation", call.requestId)
            /\ UNCHANGED entries
       ELSE /\ entries' = WriteStatus(entries, call.requestId, call.entry.ref, "cancelled")
            /\ ret' = Returned("markForCancellation", call.requestId, "void")
    /\ UNCHANGED <<backend, timeouts, timers, store, hookLog, regs>>

\* An associateDbIdentifier that creates the entry it does not find.
MemAssociateDbIdentifier_Upsert(requestId, dbIdentifier) ==
    /\ backend = "in-memory"
    /\ IF Absent(entries[requestId])
       THEN entries' = [entries EXCEPT ![requestId] =
                          [NewObject(regs[requestId] + 1) EXCEPT !.dbIdentifier = dbIdentifier]]
       ELSE entries' = [entries EXCEPT ![requestId].dbIdentifier = dbIdentifier]
    /\ ret' = Returned("associateDbIdentifier", requestId, "void")
    /\ UNCHANGED <<backend, timeouts, timers, store, calls, hookLog, regs>>

MemAssociateDbIdentifier(requestId, dbIdentifier) ==
    /\ backend = "in-memory"
    /\ IF Absent(entries[requestId])
       THEN /\ ret' = Threw("associateDbIdentifier", requestId)
            /\ UNCHANGED entries
       ELSE /\ entries' = [entries EXCEPT ![requestId].dbIdentifier = dbIdentifier]
            /\ ret' = Returned("associateDbIdentifier", requestId, "void")
    /\ UNCHANGED <<backend, timeouts, timers, store, calls, hookLog, regs>>

\* clearTimeout(timer): a timer that already fired or was cleared is left alone.
clearTimeout(pending, requestId, handle) ==
    {t \in pending : ~(t.requestId = requestId /\ t.handle = handle)}

\* A markAsFinished that sets the status and clears the timer but leaves the
\* entry in the map.
MemMarkAsFinished_KeepsEntry(requestId) ==
    /\ backend = "in-memory"
    /\ IF Absent(entries[requestId])
       THEN UNCHANGED <<entries, timeouts, timers>>
       ELSE /\ timeouts' = IF timers[requestId] # 0
                           THEN clearTimeout(timeouts, requestId, timers[requestId])
                           ELSE timeouts
            /\ entries' = [entries EXCEPT ![requestId].status = "finished"]
            /\ timers' = [timers EXCEPT ![requestId] = 0]
    /\ ret' = Returned("markAsFinished", requestId, "void")
    /\ UNCHANGED <<backend, store, calls, hookLog, regs>>

\* A markAsFinished that also drops the calls awaiting the hook for the id.
MemMarkAsFinished_CancelsHook(requestId) ==
    /\ backend = "in-memory"
    /\ IF Absent(entries[requestId])
       THEN UNCHANGED <<entries, timeouts, timers>>
       ELSE /\ timeouts' = IF timers[requestId] # 0
                           THEN clearTimeout(timeouts, requestId, timers[requestId])
                           ELSE timeouts
            /\ entries' = [entries EXCEPT ![requestId] = NoEntry]
            /\ timers' = [timers EXCEPT ![requestId] = 0]
    /\ calls' = [call \in {c \in BagToSet(calls) : c.requestId # requestId} |-> calls[call]]
    /\ ret' = Returned("markAsFinished", requestId, "void")
    /\ UNCHANGED <<backend, store, hookLog, regs>>

MemMarkAsFinished(requestId) ==
    /\ backend = "in-memory"
    /\ IF Absent(entries[requestId])
       THEN UNCHANGED <<entries, timeouts, timers>>
       ELSE /\ timeouts' = IF timers[requestId] # 0
                           THEN clearTimeout(timeouts, requestId, timers[requestId])
                           ELSE timeouts
            /\ entries' = [entries EXCEPT ![requestId] = NoEntry]
            /\ timers' = [timers EXCEPT ![requestId] = 0]
    /\ ret' = Returned("markAsFinished", requestId, "void")
    /\ UNCHANGED <<backend, store, calls, hookLog, regs>>

MemGetStatus(requestId) ==
    /\ backend = "in-memory"
    /\ ret' = Returned("getStatus", requestId, MemStatus(entries, requestId))
    /\ UNCHANGED <<backend, entries, timeouts, timers, store, calls, hookLog,
                   regs>>

\* ---------------------------------------------------------- redis backend
\* redisClient.get(key): the stored text, or null
Get(key) == store[key].value

\* A set that leaves the expiry of a key it overwrites as it is.
Set_KeepTtl(key, value) ==
    [store EXCEPT ![key] = [value |-> value,
                            ttl |-> IF @.value = Null THEN ttlSeconds ELSE @.ttl]]

\* redisClient.set(key, value, 'EX', this.ttl)
Set(key, value) == [store EXCEPT ![key] = [value |-> value, ttl |-> ttlSeconds]]

\* redisClient.del(key)
Del(key) == [store EXCEPT ![key] = NoKey]

\* what getStatus decodes from the text under the key
RedisStatus(st, requestId) ==
    IF st[getKey(requestId)].value = Null
    THEN "finished"
    ELSE Parse(st[getKey(requestId)].value).status

RedisRegister(requestId) ==
    /\ backend = "redis"
    /\ TotalRegs < MaxRegs
    /\ store' = Set(getKey(requestId), Stringify(NewEntry))
    /\ regs' = [regs EXCEPT ![requestId] = @ + 1]
    /\ hookLog' = [hookLog EXCEPT ![requestId] = <<>>]
    /\ ret' = Returned("register", requestId, "void")
    /\ UNCHANGED <<backend, entries, timeouts, timers, calls>>

\* A markForCancellation that returns early on a missing key only, whatever the
\* status under a present one.
RedisMarkForCancellation_NoStatusCheck(requestId) ==
    /\ backend = "redis"
    /\ LET entryJson == Get(getKey(requestId)) IN
         IF entryJson = Null
         THEN /\ ret' = Returned("markForCancellation", requestId, "void")
              /\ UNCHANGED calls
         ELSE /\ InFlight < MaxCalls
              /\ Suspend([op |-> "markForCancellation", pc |-> "setCancelling",
                          requestId |-> requestId,
                          entry |-> [Parse(entryJson) EXCEPT !.status = "cancelling"]])
              /\ ret' = NoRet
    /\ UNCHANGED <<backend, entries, timeouts, timers, store, hookLog, regs>>

\* markForCancellation up to its second await: the get and what follows its reply.
RedisMarkForCancellation(requestId) ==
    /\ backend = "redis"
    /\ LET entryJson == Get(getKey(requestId)) IN
         IF entryJson = Null
         THEN /\ ret' = Returned("markForCancellation", requestId, "void")
              /\ UNCHANGED calls
         ELSE IF Parse(entryJson).status # "active"
         THEN /\ ret' = Returned("markForCancellation", requestId, "void")
              /\ UNCHANGED calls
         ELSE /\ InFlight < MaxCalls
              /\ Suspend([op |-> "markForCancellation", pc |-> "setCancelling",
                          requestId |-> requestId,
                          entry |-> [Parse(entryJson) EXCEPT !.status = "cancelling"]])
              /\ ret' = NoRet
    /\ UNCHANGED <<backend, entries, timeouts, timers, store, hookLog, regs>>

\* The store runs the first set; on its reply the call invokes the hook, or,
\* with no dbIdentifier, goes on to the second set.
RedisSetCancelling(call) ==
    /\ backend = "redis"
    /\ call \in BagToSet(calls)
    /\ call.op = "markForCancellation"
    /\ call.pc = "setCancelling"
    /\ store' = Set(getKey(call.requestId), Stringify(call.entry))
    /\ IF call.entry.dbIdentifier # Undefined
       THEN /\ Len(hookLog[call.requestId]) < MaxHooks
            /\ InvokeHook(call.requestId, call.entry.dbIdentifier)
            /\ Resume(call, [call EXCEPT !.pc = "hook"])
       ELSE /\ Resume(call, [call EXCEPT !.pc = "setCancelled", !.entry.status = "cancelled"])
            /\ UNCHANGED hookLog
    /\ ret' = NoRet
    /\ UNCHANGED <<backend, entries, timeouts, timers, regs>>

\* A hook that never settles as far as the call can tell: the call goes on
\* awaiting whatever the hook does.
RedisHookSettles_KeepsWaiting(call, outcome) ==
    /\ backend = "redis"
    /\ call \in BagToSet(calls)
    /\ call.pc = "hook"
    /\ ret' = NoRet
    /\ UNCHANGED <<backend, entries, timeouts, timers, store, calls, hookLog, regs>>

\* The hook settles: a rejection leaves markForCancellation through its await.
RedisHookSettles(call, outcome) ==
    /\ backend = "redis"
    /\ call \in BagToSet(calls)
    /\ call.pc = "hook"
    /\ IF outcome = "reject"
       THEN /\ Complete(call)
            /\ ret' = Threw("markForCancellation", call.requestId)
       ELSE /\ Resume(call, [call EXCEPT !.pc = "setCancelled", !.entry.status = "cancelled"])
            /\ ret' = NoRet
    /\ UNCHANGED <<backend, entries, timeouts, timers, store, hookLog, regs>>

\* A second set that reads the record again and changes its status only.
RedisSetCancelled_Merge(call) ==
    /\ backend = "redis"
    /\ call \in BagToSet(calls)
    /\ call.op = "markForCancellation"
    /\ call.pc = "setCancelled"
    /\ store' = IF Get(getKey(call.requestId)) = Null
                THEN Set(getKey(call.requestId), Stringify(call.entry))
                ELSE Set(getKey(call.requestId),
                         Stringify([Parse(Get(getKey(call.requestId)))
                                      EXCEPT !.status = "cancelled"]))
    /\ Complete(call)
    /\ ret' = Returned("markForCancellation", call.requestId, "void")
    /\ UNCHANGED <<backend, entries, timeouts, timers, hookLog, regs>>

\* The store runs the second set and markForCancellation returns.
RedisSetCancelled(call) ==
    /\ backend = "redis"
    /\ call \in BagToSet(calls)
    /\ call.op = "markForCancellation"
    /\ call.pc = "setCancelled"
    /\ store' = Set(getKey(call.requestId), Stringify(call.entry))
    /\ Complete(call)
    /\ ret' = Returned("markForCancellation", call.requestId, "void")
    /\ UNCHANGED <<backend, entries, timeouts, timers, hookLog, regs>>

\* An associateDbIdentifier that starts from a fresh entry when the key is missing.
RedisAssociateDbIdentifier_Upsert(requestId, dbIdentifier) ==
    /\ backend = "redis"
    /\ LET entryJson == Get(getKey(requestId))
           entry == IF entryJson = Null THEN NewEntry ELSE Parse(entryJson) IN
         /\ InFlight < MaxCalls
         /\ Suspend([op |-> "associateDbIdentifier", pc |-> "set",
                     requestId |-> requestId,
                     entry |-> [entry EXCEPT !.dbIdentifier = dbIdentifier]])
         /\ ret' = NoRet
    /\ UNCHANGED <<backend, entries, timeouts, timers, store, hookLog, regs>>

\* associateDbIdentifier up to its second await: the get and what follows its reply.
RedisAssociateDbIdentifier(requestId, dbIdentifier) ==
    /\ backend = "redis"
    /\ LET entryJson == Get(getKey(requestId)) IN
         IF entryJson = Null
         THEN /\ ret' = Threw("associateDbIdentifier", requestId)
              /\ UNCHANGED calls
         ELSE /\ InFlight < MaxCalls
              /\ Suspend([op |-> "associateDbIdentifier", pc |-> "set",
                          requestId |-> requestId,
                          entry |-> [Parse(entryJson) EXCEPT !.dbIdentifier = dbIdentifier]])
              /\ ret' = NoRet
    /\ UNCHANGED <<backend, entries, timeouts, timers, store, hookLog, regs>>

\* The store runs the set of associateDbIdentifier and the call returns.
RedisAssociateSet(call) ==
    /\ backend = "redis"
    /\ call \in BagToSet(calls)
    /\ call.op = "associateDbIdentifier"
    /\ call.pc = "set"
    /\ store' = Set(getKey(call.requestId), Stringify(call.entry))
    /\ Complete(call)
    /\ ret' = Returned("associateDbIdentifier", call.requestId, "void")
    /\ UNCHANGED <<backend, entries, timeouts, timers, hookLog, regs>>

RedisMarkAsFinished(requestId) ==
    /\ backend = "redis"
    /\ store' = Del(getKey(requestId))
    /\ ret' = Returned("markAsFinished", requestId, "void")
    /\ UNCHANGED <<backend, entries, timeouts, timers, calls, hookLog, regs>>

\* A getStatus that writes the record it read back, refreshing its expiry.
RedisGetStatus_Touch(requestId) ==
    /\ backend = "redis"
    /\ ret' = Returned("getStatus", requestId, RedisStatus(store, requestId))
    /\ store' = IF Get(getKey(requestId)) = Null
                THEN store
                ELSE Set(getKey(requestId), Get(getKey(requestId)))
    /\ UNCHANGED <<backend, entries, timeouts, timers, calls, hookLog, regs>>

RedisGetStatus(requestId) ==
    /\ backend = "redis"
    /\ ret' = Returned("getStatus", requestId, RedisStatus(store, requestId))
    /\ UNCHANGED <<backend, entries, timeouts, timers, store, calls, hookLog, regs>>

\* ------------------------------------------------------------------ clock
\* One second passes: every pending timer and every key of the store has one
\* second less to live; a key whose time is up is gone.  A timer whose time is
\* up fires when the event loop gets to it (MemTimerFire).
Tick ==
    /\ timeouts' = {[t EXCEPT !.remaining = IF @ = 0 THEN 0 ELSE @ - 1] : t \in timeouts}
    /\ store' = [k \in Keys |->
                   IF store[k].value = Null \/ store[k].ttl <= 1
                   THEN NoKey
                   ELSE [store[k] EXCEPT !.ttl = @ - 1]]
    /\ ret' = NoRet
    /\ UNCHANGED <<backend, entries, timers, calls, hookLog, regs>>

Next ==
    \/ \E id \in OneId : MemRegister(id) /\ UNCHANGED <<config, first, otel, http, twin>>
    \/ \E t \in timeouts : MemTimerFire(t) /\ UNCHANGED <<config, first, otel, http, twin>>
    \/ \E id \in OneId : MemMarkForCancellation(id) /\ UNCHANGED <<config, first, otel, http, twin>>
    \/ \E call \in BagToSet(calls), outcome \in HookOutcomes : MemHookSettles(call, outcome) /\ UNCHANGED <<config, first, otel, http, twin>>
    \/ \E id \in OneId, op \in DbIds : MemAssociateDbIdentifier(id, op) /\ UNCHANGED <<config, first, otel, http, twin>>
    \/ \E id \in OneId : MemMarkAsFinished(id) /\ UNCHANGED <<config, first, otel, http, twin>>
    \/ \E id \in OneId : MemGetStatus(id) /\ UNCHANGED <<config, first, otel, http, twin>>
    \/ \E id \in OneId : RedisRegister(id) /\ UNCHANGED <<config, first, otel, http, twin>>
    \/ \E id \in OneId : RedisMarkForCancellation(id) /\ UNCHANGED <<config, first, otel, http, twin>>
    \/ \E call \in BagToSet(calls) : RedisSetCancelling(call) /\ UNCHANGED <<config, first, otel, http, twin>>
    \/ \E call \in BagToSet(calls), outcome \in HookOutcomes : RedisHookSettles(call, outcome) /\ UNCHANGED <<config, first, otel, http, twin>>
    \/ \E call \in BagToSet(calls) : RedisSetCancelled(call) /\ UNCHANGED <<config, first, otel, http, twin>>
    \/ \E id \in OneId, op \in DbIds : RedisAssociateDbIdentifier(id, op) /\ UNCHANGED <<config, first, otel, http, twin>>
    \/ \E call \in BagToSet(calls) : RedisAssociateSet(call) /\ UNCHANGED <<config, first, otel, http, twin>>
    \/ \E id \in OneId : RedisMarkAsFinished(id) /\ UNCHANGED <<config, first, otel, http, twin>>
    \/ \E id \in OneId : RedisGetStatus(id) /\ UNCHANGED <<config, first, otel, http, twin>>
    \/ Tick /\ UNCHANGED <<config, first, otel, http, twin>>

Spec == Init /\ [][Next]_vars

\* The in-memory registry on its own, with time that keeps passing and an event
\* loop that gets to every timer that is due.
MemNext ==
    \/ \E id \in OneId : MemRegister(id) /\ UNCHANGED <<config, first, otel, http, twin>>
    \/ \E t \in timeouts : MemTimerFire(t) /\ UNCHANGED <<config, first, otel, http, twin>>
    \/ \E id \in OneId : MemMarkForCancellation(id) /\ UNCHANGED <<config, first, otel, http, twin>>
    \/ \E call \in BagToSet(calls), outcome \in HookOutcomes : MemHookSettles(call, outcome) /\ UNCHANGED <<config, first, otel, http, twin>>
    \/ \E id \in OneId, op \in DbIds : MemAssociateDbIdentifier(id, op) /\ UNCHANGED <<config, first, otel, http, twin>>
    \/ \E id \in OneId : MemMarkAsFinished(id) /\ UNCHANGED <<config, first, otel, http, twin>>
    \/ \E id \in OneId : MemGetStatus(id) /\ UNCHANGED <<config, first, otel, http, twin>>
    \/ Tick /\ UNCHANGED <<config, first, otel, http, twin>>

MemInit == Init /\ backend = "in-memory"

\* the in-memory registry on its own, with no assumption on scheduling
MemSpec == MemInit /\ [][MemNext]_vars

MemFairSpec ==
    /\ MemInit
    /\ [][MemNext]_vars
    /\ WF_vars(Tick /\ UNCHANGED <<config, first, otel, http, twin>>)
    /\ WF_vars(\E t \in timeouts : MemTimerFire(t) /\ UNCHANGED <<config, first, otel, http, twin>>)

\* The registry called for two request ids, built from a config that names its
\* type and carries a client.  Each id is registered once and its caller makes
\* one call at a time; the calls of the two ids, the hooks and the timers
\* interleave freely.
Idle(requestId) == ~\E call \in BagToSet(calls) : call.requestId = requestId

\* the identifier the caller attaches to each request id
OpOf(requestId) == IF requestId = "r1" THEN "op1" ELSE "op2"

TwoIdNext ==
    \/ \E id \in Ids : regs[id] = 0 /\ MemRegister(id) /\ UNCHANGED <<config, first, otel, http, twin>>
    \/ \E t \in timeouts : MemTimerFire(t) /\ UNCHANGED <<config, first, otel, http, twin>>
    \/ \E id \in Ids : Idle(id) /\ MemMarkForCancellation(id) /\ UNCHANGED <<config, first, otel, http, twin>>
    \/ \E call \in BagToSet(calls), outcome \in HookOutcomes : MemHookSettles(call, outcome) /\ UNCHANGED <<config, first, otel, http, twin>>
    \/ \E id \in Ids : Idle(id) /\ MemAssociateDbIdentifier(id, OpOf(id)) /\ UNCHANGED <<config, first, otel, http, twin>>
    \/ \E id \in Ids : Idle(id) /\ MemMarkAsFinished(id) /\ UNCHANGED <<config, first, otel, http, twin>>
    \/ \E id \in Ids : Idle(id) /\ MemGetStatus(id) /\ UNCHANGED <<config, first, otel, http, twin>>
    \/ \E id \in Ids : regs[id] = 0 /\ RedisRegister(id) /\ UNCHANGED <<config, first, otel, http, twin>>
    \/ \E id \in Ids : Idle(id) /\ RedisMarkForCancellation(id) /\ UNCHANGED <<config, first, otel, http, twin>>
    \/ \E call \in BagToSet(calls) : RedisSetCancelling(call) /\ UNCHANGED <<config, first, otel, http, twin>>
    \/ \E call \in BagToSet(calls), outcome \in HookOutcomes : RedisHookSettles(call, outcome) /\ UNCHANGED <<config, first, otel, http, twin>>
    \/ \E call \in BagToSet(calls) : RedisSetCancelled(call) /\ UNCHANGED <<config, first, otel, http, twin>>
    \/ \E id \in Ids : Idle(id) /\ RedisAssociateDbIdentifier(id, OpOf(id)) /\ UNCHANGED <<config, first, otel, http, twin>>
    \/ \E call \in BagToSet(calls) : RedisAssociateSet(call) /\ UNCHANGED <<config, first, otel, http, twin>>
    \/ \E id \in Ids : Idle(id) /\ RedisMarkAsFinished(id) /\ UNCHANGED <<config, first, otel, http, twin>>
    \/ \E id \in Ids : Idle(id) /\ RedisGetStatus(id) /\ UNCHANGED <<config, first, otel, http, twin>>
    \/ Tick /\ UNCHANGED <<config, first, otel, http, twin>>

TwoIdInit == Init /\ config.type # Undefined /\ config.redisClient = "client"

TwoIdSpec == TwoIdInit /\ [][TwoIdNext]_vars

\* One registration of one request id, on either registry: the id is
\* registered once, and the calls made for it afterwards overlap freely with
\* each other, with the hook, with the timer and with the passing of time.
RaceNext ==
    \/ \E id \in OneId : regs[id] = 0 /\ MemRegister(id) /\ UNCHANGED <<config, first, otel, http, twin>>
    \/ \E t \in timeouts : MemTimerFire(t) /\ UNCHANGED <<config, first, otel, http, twin>>
    \/ \E id \in OneId : MemMarkForCancellation(id) /\ UNCHANGED <<config, first, otel, http, twin>>
    \/ \E call \in BagToSet(calls), outcome \in HookOutcomes : MemHookSettles(call, outcome) /\ UNCHANGED <<config, first, otel, http, twin>>
    \/ \E id \in OneId, op \in DbIds : MemAssociateDbIdentifier(id, op) /\ UNCHANGED <<config, first, otel, http, twin>>
    \/ \E id \in OneId : MemMarkAsFinished(id) /\ UNCHANGED <<config, first, otel, http, twin>>
    \/ \E id \in OneId : MemGetStatus(id) /\ UNCHANGED <<config, first, otel, http, twin>>
    \/ \E id \in OneId : regs[id] = 0 /\ RedisRegister(id) /\ UNCHANGED <<config, first, otel, http, twin>>
    \/ \E id \in OneId : RedisMarkForCancellation(id) /\ UNCHANGED <<config, first, otel, http, twin>>
    \/ \E call \in BagToSet(calls) : RedisSetCancelling(call) /\ UNCHANGED <<config, first, otel, http, twin>>
    \/ \E call \in BagToSet(calls), outcome \in HookOutcomes : RedisHookSettles(call, outcome) /\ UNCHANGED <<config, first, otel, http, twin>>
    \/ \E call \in BagToSet(calls) : RedisSetCancelled(call) /\ UNCHANGED <<config, first, otel, http, twin>>
    \/ \E id \in OneId, op \in DbIds : RedisAssociateDbIdentifier(id, op) /\ UNCHANGED <<config, first, otel, http, twin>>
    \/ \E call \in BagToSet(calls) : RedisAssociateSet(call) /\ UNCHANGED <<config, first, otel, http, twin>>
    \/ \E id \in OneId : RedisMarkAsFinished(id) /\ UNCHANGED <<config, first, otel, http, twin>>
    \/ \E id \in OneId : RedisGetStatus(id) /\ UNCHANGED <<config, first, otel, http, twin>>
    \/ Tick /\ UNCHANGED <<config, first, otel, http, twin>>

RaceInit == Init /\ backend # "none"

RaceSpec == RaceInit /\ [][RaceNext]_vars

\* the markForCancellation calls in flight for requestId
MarksInFlight(requestId) ==
    Sum(calls, {call \in BagToSet(calls) :
                  call.requestId = requestId /\ call.op = "markForCancellation"})

\* One registration of one request id with a hook that settles and a store
\* that answers: the hook of every invocation eventually settles and every
\* store command issued is eventually run.  markForCancellation is called
\* only while each call in flight can still invoke the hook within the bound
\* on hook invocations.
MarkNext ==
    \/ \E id \in OneId : regs[id] = 0 /\ MemRegister(id) /\ UNCHANGED <<config, first, otel, http, twin>>
    \/ \E t \in timeouts : MemTimerFire(t) /\ UNCHANGED <<config, first, otel, http, twin>>
    \/ \E id \in OneId : MemMarkForCancellation(id) /\ UNCHANGED <<config, first, otel, http, twin>>
    \/ \E call \in BagToSet(calls), outcome \in HookOutcomes : MemHookSettles(call, outcome) /\ UNCHANGED <<config, first, otel, http, twin>>
    \/ \E id \in OneId, op \in DbIds : MemAssociateDbIdentifier(id, op) /\ UNCHANGED <<config, first, otel, http, twin>>
    \/ \E id \in OneId : MemMarkAsFinished(id) /\ UNCHANGED <<config, first, otel, http, twin>>
    \/ \E id \in OneId : regs[id] = 0 /\ RedisRegister(id) /\ UNCHANGED <<config, first, otel, http, twin>>
    \/ \E id \in OneId :
         /\ Len(hookLog[id]) + MarksInFlight(id) < MaxHooks
         /\ RedisMarkForCancellation(id) /\ UNCHANGED <<config, first, otel, http, twin>>
    \/ \E call \in BagToSet(calls) : RedisSetCancelling(call) /\ UNCHANGED <<config, first, otel, http, twin>>
    \/ \E call \in BagToSet(calls), outcome \in HookOutcomes : RedisHookSettles(call, outcome) /\ UNCHANGED <<config, first, otel, http, twin>>
    \/ \E call \in BagToSet(calls) : RedisSetCancelled(call) /\ UNCHANGED <<config, first, otel, http, twin>>
    \/ \E id \in OneId, op \in DbIds : RedisAssociateDbIdentifier(id, op) /\ UNCHANGED <<config, first, otel, http, twin>>
    \/ \E call \in BagToSet(calls) : RedisAssociateSet(call) /\ UNCHANGED <<config, first, otel, http, twin>>
    \/ \E id \in OneId : RedisMarkAsFinished(id) /\ UNCHANGED <<config, first, otel, http, twin>>
    \/ Tick /\ UNCHANGED <<config, first, otel, http, twin>>

MarkFairSpec ==
    /\ RaceInit
    /\ [][MarkNext]_vars
    /\ WF_vars(\E call \in BagToSet(calls), outcome \in HookOutcomes :
                 MemHookSettles(call, outcome) /\ UNCHANGED <<config, first, otel, http, twin>>)
    /\ WF_vars(\E call \in BagToSet(calls) : RedisSetCancelling(call) /\ UNCHANGED <<config, first, otel, http, twin>>)
    /\ WF_vars(\E call \in BagToSet(calls), outcome \in HookOutcomes :
                 RedisHookSettles(call, outcome) /\ UNCHANGED <<config, first, otel, http, twin>>)
    /\ WF_vars(\E call \in BagToSet(calls) : RedisSetCancelled(call) /\ UNCHANGED <<config, first, otel, http, twin>>)
    /\ WF_vars(\E call \in BagToSet(calls) : RedisAssociateSet(call) /\ UNCHANGED <<config, first, otel, http, twin>>)

\* The registry of Spec with the history variable first recorded: register
\* starts a registration, and the first call of markForCancellation or
\* markAsFinished in a registration is remembered.
Registered(requestId) ==
    /\ first' = [first EXCEPT ![requestId] = "none"]
    /\ UNCHANGED <<config, otel, http, twin>>

Called(op, requestId) ==
    /\ first' = [first EXCEPT ![requestId] =
                   IF regs[requestId] > 0 /\ @ = "none" THEN op ELSE @]
    /\ UNCHANGED <<config, otel, http, twin>>

HistNext ==
    \/ \E id \in OneId : MemRegister(id) /\ Registered(id)
    \/ \E t \in timeouts : MemTimerFire(t) /\ UNCHANGED <<config, first, otel, http, twin>>
    \/ \E id \in OneId : MemMarkForCancellation(id) /\ Called("markForCancellation", id)
    \/ \E call \in BagToSet(calls), outcome \in HookOutcomes :
         MemHookSettles(call, outcome) /\ UNCHANGED <<config, first, otel, http, twin>>
    \/ \E id \in OneId, op \in DbIds : MemAssociateDbIdentifier(id, op) /\ UNCHANGED <<config, first, otel, http, twin>>
    \/ \E id \in OneId : MemMarkAsFinished(id) /\ Called("markAsFinished", id)
    \/ \E id \in OneId : MemGetStatus(id) /\ UNCHANGED <<config, first, otel, http, twin>>
    \/ \E id \in OneId : RedisRegister(id) /\ Registered(id)
    \/ \E id \in OneId : RedisMarkForCancellation(id) /\ Called("markForCancellation", id)
    \/ \E call \in BagToSet(calls) : RedisSetCancelling(call) /\ UNCHANGED <<config, first, otel, http, twin>>
    \/ \E call \in BagToSet(calls), outcome \in HookOutcomes :
         RedisHookSettles(call, outcome) /\ UNCHANGED <<config, first, otel, http, twin>>
    \/ \E call \in BagToSet(calls) : RedisSetCancelled(call) /\ UNCHANGED <<config, first, otel, http, twin>>
    \/ \E id \in OneId, op \in DbIds : RedisAssociateDbIdentifier(id, op) /\ UNCHANGED <<config, first, otel, http, twin>>
    \/ \E call \in BagToSet(calls) : RedisAssociateSet(call) /\ UNCHANGED <<config, first, otel, http, twin>>
    \/ \E id \in OneId : RedisMarkAsFinished(id) /\ Called("markAsFinished", id)
    \/ \E id \in OneId : RedisGetStatus(id) /\ UNCHANGED <<config, first, otel, http, twin>>
    \/ Tick /\ UNCHANGED <<config, first, otel, http, twin>>

HistSpec == Init /\ [][HistNext]_vars

\* ------------------------------------------------------- store failures
\* The redis registry with a client whose commands may fail: the promise of a
\* get, set or del rejects and the store is left as it was.  No method of the
\* registry has a try/catch, so the rejection leaves the method through its
\* await.

\* register: the set rejects.
RedisRegisterSetFails(requestId) ==
    /\ backend = "redis"
    /\ TotalRegs < MaxRegs
    /\ regs' = [regs EXCEPT ![requestId] = @ + 1]
    /\ hookLog' = [hookLog EXCEPT ![requestId] = <<>>]
    /\ ret' = Threw("register", requestId)
    /\ UNCHANGED <<backend, entries, timeouts, timers, store, calls>>

\* markForCancellation: the get rejects.
RedisMarkGetFails(requestId) ==
    /\ backend = "redis"
    /\ ret' = Threw("markForCancellation", requestId)
    /\ UNCHANGED <<backend, entries, timeouts, timers, store, calls, hookLog, regs>>

\* markForCancellation: the first set rejects; the hook is not invoked.
RedisSetCancellingFails(call) ==
    /\ backend = "redis"
    /\ call \in BagToSet(calls)
    /\ call.op = "markForCancellation"
    /\ call.pc = "setCancelling"
    /\ Complete(call)
    /\ ret' = Threw("markForCancellation", call.requestId)
    /\ UNCHANGED <<backend, entries, timeouts, timers, store, hookLog, regs>>

\* markForCancellation: the second set rejects.
RedisSetCancelledFails(call) ==
    /\ backend = "redis"
    /\ call \in BagToSet(calls)
    /\ call.op = "markForCancellation"
    /\ call.pc = "setCancelled"
    /\ Complete(call)
    /\ ret' = Threw("markForCancellation", call.requestId)
    /\ UNCHANGED <<backend, entries, timeouts, timers, store, hookLog, regs>>

\* associateDbIdentifier: the get rejects.
RedisAssociateGetFails(requestId) ==
    /\ backend = "redis"
    /\ ret' = Threw("associateDbIdentifier", requestId)
    /\ UNCHANGED <<backend, entries, timeouts, timers, store, calls, hookLog, regs>>

\* associateDbIdentifier: the set rejects.
RedisAssociateSetFails(call) ==
    /\ backend = "redis"
    /\ call \in BagToSet(calls)
    /\ call.op = "associateDbIdentifier"
    /\ call.pc = "set"
    /\ Complete(call)
    /\ ret' = Threw("associateDbIdentifier", call.requestId)
    /\ UNCHANGED <<backend, entries, timeouts, timers, store, hookLog, regs>>

\* markAsFinished: the del rejects.
RedisDelFails(requestId) ==
    /\ backend = "redis"
    /\ ret' = Threw("markAsFinished", requestId)
    /\ UNCHANGED <<backend, entries, timeouts, timers, store, calls, hookLog, regs>>

\* getStatus: the get rejects.
RedisGetStatusFails(requestId) ==
    /\ backend = "redis"
    /\ ret' = Threw("getStatus", requestId)
    /\ UNCHANGED <<backend, entries, timeouts, timers, store, calls, hookLog, regs>>

FailNext ==
    \/ \E id \in OneId : RedisRegister(id) /\ UNCHANGED <<config, first, otel, http, twin>>
    \/ \E id \in OneId : RedisRegisterSetFails(id) /\ UNCHANGED <<config, first, otel, http, twin>>
    \/ \E id \in OneId : RedisMarkForCancellation(id) /\ UNCHANGED <<config, first, otel, http, twin>>
    \/ \E id \in OneId : RedisMarkGetFails(id) /\ UNCHANGED <<config, first, otel, http, twin>>
    \/ \E call \in BagToSet(calls) : RedisSetCancelling(call) /\ UNCHANGED <<config, first, otel, http, twin>>
    \/ \E call \in BagToSet(calls) : RedisSetCancellingFails(call) /\ UNCHANGED <<config, first, otel, http, twin>>
    \/ \E call \in BagToSet(calls), outcome \in HookOutcomes : RedisHookSettles(call, outcome) /\ UNCHANGED <<config, first, otel, http, twin>>
    \/ \E call \in BagToSet(calls) : RedisSetCancelled(call) /\ UNCHANGED <<config, first, otel, http, twin>>
    \/ \E call \in BagToSet(calls) : RedisSetCancelledFails(call) /\ UNCHANGED <<config, first, otel, http, twin>>
    \/ \E id \in OneId, op \in DbIds : RedisAssociateDbIdentifier(id, op) /\ UNCHANGED <<config, first, otel, http, twin>>
    \/ \E id \in OneId : RedisAssociateGetFails(id) /\ UNCHANGED <<config, first, otel, http, twin>>
    \/ \E call \in BagToSet(calls) : RedisAssociateSet(call) /\ UNCHANGED <<config, first, otel, http, twin>>
    \/ \E call \in BagToSet(calls) : RedisAssociateSetFails(call) /\ UNCHANGED <<config, first, otel, http, twin>>
    \/ \E id \in OneId : RedisMarkAsFinished(id) /\ UNCHANGED <<config, first, otel, http, twin>>
    \/ \E id \in OneId : RedisDelFails(id) /\ UNCHANGED <<config, first, otel, http, twin>>
    \/ \E id \in OneId : RedisGetStatus(id) /\ UNCHANGED <<config, first, otel, http, twin>>
    \/ \E id \in OneId : RedisGetStatusFails(id) /\ UNCHANGED <<config, first, otel, http, twin>>
    \/ Tick /\ UNCHANGED <<config, first, otel, http, twin>>

FailInit == Init /\ backend = "redis"

FailSpec == FailInit /\ [][FailNext]_vars

\* ------------------------------------------------------------- middleware
\* what a request can carry under the request-id header: nothing, an empty
\* value, or an id
HeaderIds == {Undefined, ""} \cup Ids

\* createAutoCancellationMiddleware(config): the registry is the one of Init
\* (the call throws when createCancellationRegistry does); otel is an
\* OTelIntegration when the config carries a tracer provider, null otherwise.
createAutoCancellationMiddleware(otelTracerProvider) ==
    /\ backend # "none"
    /\ ~http.created
    /\ http' = [http EXCEPT !.created = TRUE]
    /\ otel' = [otel EXCEPT !.exists = (otelTracerProvider # Undefined)]
    /\ ret' = NoRet
    /\ UNCHANGED <<backend, entries, timeouts, timers, store, calls, hookLog, regs>>

\* A request id that is generated whatever the request carries.
RequestIdOf_AlwaysGenerated(headerId, uuid) == uuid

\* headerId || randomUUID()
RequestIdOf(headerId, uuid) ==
    IF headerId = Undefined \/ headerId = "" THEN uuid ELSE headerId

\* cancellationMiddleware(req, res, next) for a request that carries headerId,
\* randomUUID() returning uuid when it is called.  createRequestSpan either
\* returns or throws (spanThrows); a throw leaves the middleware before the
\* listeners are attached and before next().
cancellationMiddleware(headerId, uuid, spanThrows) ==
    /\ http.created
    /\ http.requestId = Undefined
    /\ LET requestId == RequestIdOf(headerId, uuid)
           handled == [http EXCEPT !.headerId = headerId,
                                   !.uuid = IF requestId = headerId THEN Undefined ELSE uuid,
                                   !.requestId = requestId,
                                   !.responseHeader = requestId,
                                   !.registryCalls =
                                      Append(@, [op |-> "register", requestId |-> requestId])] IN
         /\ MemRegister(requestId) \/ RedisRegister(requestId)
         /\ IF otel.exists /\ spanThrows
            THEN /\ http' = handled
                 /\ otel' = otel
            ELSE /\ http' = [handled EXCEPT !.listeners = {"close", "finish"}, !.next = TRUE]
                 /\ otel' = IF otel.exists
                            THEN [otel EXCEPT !.spansByRequestId = @ \cup {requestId}]
                            ELSE otel

\* The listener of the request's 'close' event: markRequestCancelled, when
\* there is an integration, then markForCancellation(requestId).
\* markRequestCancelled returns at once when it finds no span; otherwise
\* span.addEvent either returns or throws (eventThrows), and a throw leaves
\* the listener.
OnClose(eventThrows) ==
    /\ "close" \in http.listeners \ http.fired
    /\ IF otel.exists /\ http.requestId \in otel.spansByRequestId /\ eventThrows
       THEN /\ http' = [http EXCEPT !.fired = @ \cup {"close"}]
            /\ otel' = otel
            /\ ret' = Threw("close listener", http.requestId)
            /\ UNCHANGED <<backend, entries, timeouts, timers, store, calls, hookLog, regs>>
       ELSE /\ \/ MemMarkForCancellation(http.requestId)
               \/ RedisMarkForCancellation(http.requestId)
            /\ http' = [http EXCEPT !.fired = @ \cup {"close"},
                                    !.registryCalls =
                                       Append(@, [op |-> "markForCancellation",
                                                  requestId |-> http.requestId])]
            /\ otel' = IF otel.exists /\ http.requestId \in otel.spansByRequestId
                       THEN [otel EXCEPT !.events = Append(@, "request.cancelled")]
                       ELSE otel

\* The listener of the response's 'finish' event: endRequestSpan, when there
\* is an integration, then markAsFinished(requestId).  endRequestSpan returns
\* at once when it finds no span; otherwise span.setStatus and span.end either
\* return or throw (endThrows), and a throw leaves the listener.
OnFinish(endThrows) ==
    /\ "finish" \in http.listeners \ http.fired
    /\ IF otel.exists /\ http.requestId \in otel.spansByRequestId /\ endThrows
       THEN /\ http' = [http EXCEPT !.fired = @ \cup {"finish"}]
            /\ otel' = otel
            /\ ret' = Threw("finish listener", http.requestId)
            /\ UNCHANGED <<backend, entries, timeouts, timers, store, calls, hookLog, regs>>
       ELSE /\ \/ MemMarkAsFinished(http.requestId)
               \/ RedisMarkAsFinished(http.requestId)
            /\ http' = [http EXCEPT !.fired = @ \cup {"finish"},
                                    !.registryCalls =
                                       Append(@, [op |-> "markAsFinished",
                                                  requestId |-> http.requestId])]
            /\ otel' = IF otel.exists /\ http.requestId \in otel.spansByRequestId
                       THEN [otel EXCEPT !.spansByRequestId = @ \ {http.requestId},
                                         !.events = Append(@, "span.end")]
                       ELSE otel

\* The application's handler, run after next(), attaches an identifier to
\* req.requestId.
Handler(dbIdentifier) ==
    /\ http.next
    /\ \/ MemAssociateDbIdentifier(http.requestId, dbIdentifier)
       \/ RedisAssociateDbIdentifier(http.requestId, dbIdentifier)
    /\ UNCHANGED <<otel, http>>

\* One request through the middleware: the middleware is created, handles the
\* request, the handler attaches identifiers, the request closes and the
\* response finishes in either order, while the hooks, the store and the
\* timers take their steps.
MwNext ==
    \/ \E provider \in {Undefined, "provider"} :
         createAutoCancellationMiddleware(provider) /\ UNCHANGED <<config, first, twin>>
    \/ \E headerId \in HeaderIds, uuid \in Ids, spanThrows \in BOOLEAN :
         cancellationMiddleware(headerId, uuid, spanThrows) /\ UNCHANGED <<config, first, twin>>
    \/ \E eventThrows \in BOOLEAN : OnClose(eventThrows) /\ UNCHANGED <<config, first, twin>>
    \/ \E endThrows \in BOOLEAN : OnFinish(endThrows) /\ UNCHANGED <<config, first, twin>>
    \/ \E op \in DbIds : Handler(op) /\ UNCHANGED <<config, first, twin>>
    \/ \E t \in timeouts : MemTimerFire(t) /\ UNCHANGED <<config, first, otel, http, twin>>
    \/ \E call \in BagToSet(calls), outcome \in HookOutcomes :
         MemHookSettles(call, outcome) /\ UNCHANGED <<config, first, otel, http, twin>>
    \/ \E call \in BagToSet(calls) : RedisSetCancelling(call) /\ UNCHANGED <<config, first, otel, http, twin>>
    \/ \E call \in BagToSet(calls), outcome \in HookOutcomes :
         RedisHookSettles(call, outcome) /\ UNCHANGED <<config, first, otel, http, twin>>
    \/ \E call \in BagToSet(calls) : RedisSetCancelled(call) /\ UNCHANGED <<config, first, otel, http, twin>>
    \/ \E call \in BagToSet(calls) : RedisAssociateSet(call) /\ UNCHANGED <<config, first, otel, http, twin>>
    \/ Tick /\ UNCHANGED <<config, first, otel, http, twin>>

MwSpec == Init /\ [][MwNext]_vars

\* ----------------------------------------------------- the express adapter
\* The function withDbCancellation(handler, registry, getDbIdentifier) returns,
\* called by the router for the request with getDbIdentifier(req) returning
\* dbIdentifier.  Without a req.requestId it calls the handler at once.  With a
\* truthy identifier it calls registry.associateDbIdentifier first: a promise
\* returned gets a catch handler and the wrapper goes on to the handler
\* whatever becomes of the promise, while an exception thrown by the call
\* leaves the wrapper, an async function, before the handler is called.
withDbCancellation(dbIdentifier) ==
    /\ http.created
    /\ http.next \/ http.requestId = Undefined
    /\ http.wrapperCalls = 0
    /\ IF http.requestId = Undefined \/ dbIdentifier = Undefined
       THEN /\ http' = [http EXCEPT !.wrapperCalls = @ + 1, !.handlerCalls = @ + 1]
            /\ UNCHANGED <<backend, entries, timeouts, timers, store, calls, hookLog,
                           regs, ret>>
       ELSE \/ /\ MemAssociateDbIdentifier(http.requestId, dbIdentifier)
               /\ http' = IF ret' = Threw("associateDbIdentifier", http.requestId)
                          THEN [http EXCEPT !.wrapperCalls = @ + 1]
                          ELSE [http EXCEPT !.wrapperCalls = @ + 1, !.handlerCalls = @ + 1]
            \/ /\ RedisAssociateDbIdentifier(http.requestId, dbIdentifier)
               /\ http' = [http EXCEPT !.wrapperCalls = @ + 1, !.handlerCalls = @ + 1]
    /\ UNCHANGED otel

\* One request through the middleware and then through a route wrapped by
\* withDbCancellation.
WrapNext ==
    \/ MwNext
    \/ \E dbIdentifier \in DbIds \cup {Undefined} :
         withDbCancellation(dbIdentifier) /\ UNCHANGED <<config, first, twin>>

WrapSpec == Init /\ [][WrapNext]_vars

\* ------------------------------------------------------------ two backends
\* A caller holds an in-memory registry and a redis registry built with the
\* same hook and ttl, and makes every call on the first and then, once it has
\* completed, on the second, with the same arguments and a hook that settles
\* the same way.  No time passes, so nothing expires; the hook resolves.

\* the values the caller passes as dbIdentifier (any)
TwinDbIds == DbIds \cup {Undefined, ADate}

\* what the hook resolves to
Resolutions == HookOutcomes \ {"reject"}

\* the hook invocations the step makes for requestId
Invoked(requestId) ==
    IF Len(hookLog'[requestId]) > Len(hookLog[requestId])
    THEN <<hookLog'[requestId][Len(hookLog'[requestId])]>>
    ELSE <<>>

\* the step is one of call c on the in-memory registry
OnMem(c) ==
    /\ twin' = [twin EXCEPT !.phase = IF ret' = NoRet THEN "mem" ELSE "memDone",
                            !.call = c,
                            !.mem = [ret |-> ret',
                                     hooks |-> twin.mem.hooks \o Invoked(c.requestId)]]
    /\ UNCHANGED <<config, first, otel, http>>

\* the step is one of call twin.call on the redis registry
OnRedis ==
    /\ twin' = [twin EXCEPT !.phase = IF ret' = NoRet THEN "redis" ELSE "done",
                            !.redis = [ret |-> ret',
                                       hooks |-> twin.redis.hooks
                                                   \o Invoked(twin.call.requestId)]]
    /\ UNCHANGED <<config, first, otel, http>>

\* the caller turns from one registry to the other
Turn(from, to, next) ==
    /\ twin.phase = from
    /\ backend' = to
    /\ twin' = next
    /\ ret' = NoRet
    /\ UNCHANGED <<config, entries, timeouts, timers, store, calls, hookLog, regs,
                   first, otel, http>>

TheCall(op, id, dbIdentifier, outcome) ==
    [op |-> op, requestId |-> id, dbIdentifier |-> dbIdentifier, outcome |-> outcome]

TwinNext ==
    \/ \E id \in Ids :
         /\ twin.phase = "idle"
         /\ TotalRegs + 1 < MaxRegs
         /\ MemRegister(id)
         /\ OnMem(TheCall("register", id, Undefined, "none"))
    \/ \E id \in Ids, op \in TwinDbIds :
         /\ twin.phase = "idle"
         /\ MemAssociateDbIdentifier(id, op)
         /\ OnMem(TheCall("associateDbIdentifier", id, op, "none"))
    \/ \E id \in Ids, outcome \in Resolutions :
         /\ twin.phase = "idle"
         /\ MemMarkForCancellation(id)
         /\ OnMem(TheCall("markForCancellation", id, Undefined, outcome))
    \/ \E id \in Ids :
         /\ twin.phase = "idle"
         /\ MemMarkAsFinished(id)
         /\ OnMem(TheCall("markAsFinished", id, Undefined, "none"))
    \/ \E id \in Ids :
         /\ twin.phase = "idle"
         /\ MemGetStatus(id)
         /\ OnMem(TheCall("getStatus", id, Undefined, "none"))
    \/ \E call \in BagToSet(calls) :
         /\ twin.phase = "mem"
         /\ MemHookSettles(call, twin.call.outcome)
         /\ OnMem(twin.call)
    \/ Turn("memDone", "redis", [twin EXCEPT !.phase = "redisStart"])
    \/ /\ twin.phase = "redisStart"
       /\ twin.call.op = "register"
       /\ RedisRegister(twin.call.requestId)
       /\ OnRedis
    \/ /\ twin.phase = "redisStart"
       /\ twin.call.op = "associateDbIdentifier"
       /\ RedisAssociateDbIdentifier(twin.call.requestId, twin.call.dbIdentifier)
       /\ OnRedis
    \/ /\ twin.phase = "redisStart"
       /\ twin.call.op = "markForCancellation"
       /\ RedisMarkForCancellation(twin.call.requestId)
       /\ OnRedis
    \/ /\ twin.phase = "redisStart"
       /\ twin.call.op = "markAsFinished"
       /\ RedisMarkAsFinished(twin.call.requestId)
       /\ OnRedis
    \/ /\ twin.phase = "redisStart"
       /\ twin.call.op = "getStatus"
       /\ RedisGetStatus(twin.call.requestId)
       /\ OnRedis
    \/ \E call \in BagToSet(calls) : RedisSetCancelling(call) /\ OnRedis
    \/ \E call \in BagToSet(calls) : RedisHookSettles(call, twin.call.outcome) /\ OnRedis
    \/ \E call \in BagToSet(calls) : RedisSetCancelled(call) /\ OnRedis
    \/ \E call \in BagToSet(calls) : RedisAssociateSet(call) /\ OnRedis
    \/ Turn("done", "in-memory", NoTwin)

\* both registries are built from one config, the one the redis registry
\* needs; the caller starts with the in-memory registry
TwinInit ==
    /\ Init
    /\ config.type = "in-memory"
    /\ config.redisClient = "client"

TwinSpec == TwinInit /\ [][TwinNext]_vars

\* ----------------------------------------------------------- observations
InMemory == backend = "in-memory"
Redis    == backend = "redis"

\* what getStatus(requestId) returns in the current state
Status(requestId) ==
    IF InMemory THEN MemStatus(entries, requestId) ELSE RedisStatus(store, requestId)

\* the store holds an entry for requestId
HasEntry(requestId) ==
    IF InMemory THEN ~Absent(entries[requestId]) ELSE Get(getKey(requestId)) # Null

\* the identifier attached to the entry of requestId (Undefined: none)
DbIdentifier(requestId) ==
    IF InMemory
    THEN entries[requestId].dbIdentifier
    ELSE IF Get(getKey(requestId)) = Null
         THEN Undefined
         ELSE Parse(Get(getKey(requestId))).dbIdentifier

\* the position of a stored status on the path active -> cancelling -> cancelled
Rank(status) ==
    IF status = "active" THEN 0 ELSE IF status = "cancelling" THEN 1 ELSE 2

\* a call of markForCancellation is awaiting the hook it invoked
HookPending(requestId) ==
    \E call \in BagToSet(calls) : call.requestId = requestId /\ call.pc = "hook"

\* ------------------------------------------------------------------ claims

\* C1: in-memory backend: between two register(id) calls the hook is invoked
\* at most once for id however many markForCancellation(id) calls are made, and
\* exactly once as soon as one of them found the entry active with an
\* identifier (the entry is 'cancelling', or a call is awaiting the hook): a
\* call that observes 'cancelling' invokes nothing.
C1_HookExactlyOnceInMemory ==
    InMemory =>
      \A id \in Ids :
        /\ Len(hookLog[id]) <= 1
        /\ (HasEntry(id) /\ entries[id].status = "cancelling") => Len(hookLog[id]) = 1
        /\ (\E call \in BagToSet(calls) :
              call.requestId = id /\ call.entry.ref = regs[id]) => Len(hookLog[id]) = 1

\* C1 witness: a second markForCancellation(id) has returned while the first
\* one is still awaiting the hook, and the hook was invoked once.
C1_Witness ==
    /\ InMemory
    /\ \E id \in Ids :
         /\ ret = Returned("markForCancellation", id, "void")
         /\ HookPending(id)
         /\ entries[id].status = "cancelling"
         /\ Len(hookLog[id]) = 1

\* C2: redis backend: on an id registered once, the hook is invoked at most
\* once, whatever the interleaving of the get and set steps of the
\* markForCancellation(id) calls.
C2_HookAtMostOnceRedis ==
    Redis => \A id \in Ids : regs[id] <= 1 => Len(hookLog[id]) <= 1

\* C3: markForCancellation never passes a failure of the hook on to its
\* caller: no call of it completes by throwing (the hook is the only thing
\* that fails here).
C3_HookFailureNotPropagated ==
    ret.op = "markForCancellation" => ret.outcome = "returned"

\* C4: in-memory backend: the status stored for an id that has an entry before
\* and after a step never moves backwards on active -> cancelling -> cancelled,
\* register on a tracked id included.
C4_StatusMonotonicInMemory ==
    [][InMemory =>
         \A id \in Ids :
           (HasEntry(id) /\ HasEntry(id)') =>
             Rank(entries'[id].status) >= Rank(entries[id].status)]_vars

\* C5: redis backend: by the get and set steps of associateDbIdentifier and
\* markForCancellation (no register in between) the status under the key never
\* goes from 'cancelling' or 'cancelled' back to 'active'.
C5_NoReturnToActiveRedis ==
    [][Redis =>
         \A id \in Ids :
           (/\ regs' = regs
            /\ HasEntry(id)
            /\ RedisStatus(store, id) \in {"cancelling", "cancelled"}) =>
             RedisStatus(store', id) # "active"]_vars

\* C6: redis backend: in the state markAsFinished(id) has completed in,
\* getStatus(id) is 'finished', and it still is after whatever step comes next
\* unless that step is register(id): a write-back of a call in flight included.
C6_FinishedAbsorbingRedis ==
    [][Redis =>
         \A id \in Ids :
           (ret = Returned("markAsFinished", id, "void") /\ regs' = regs) =>
             /\ RedisStatus(store, id) = "finished"
             /\ RedisStatus(store', id) = "finished"]_vars

\* C7: in-memory backend: in the state a markForCancellation(id) call
\* completes in, with the entry of id neither finished nor expired,
\* getStatus(id) is 'cancelled'.
C7_CancelledAtCompletion ==
    InMemory =>
      \A id \in Ids :
        (ret.op = "markForCancellation" /\ ret.requestId = id /\ HasEntry(id)) =>
          Status(id) = "cancelled"

\* C8: for an id that was never registered getStatus returns 'finished', in
\* every state and from every call of it, and never throws.
C8_UnregisteredIsFinished ==
    \A id \in Ids :
      regs[id] = 0 =>
        /\ Status(id) = "finished"
        /\ (ret.op = "getStatus" /\ ret.requestId = id) =>
             (ret.outcome = "returned" /\ ret.value = "finished")

\* C8 witness: getStatus has returned 'finished' for an id never registered.
C8_Witness ==
    \E id \in Ids : regs[id] = 0 /\ ret = Returned("getStatus", id, "finished")

\* C9: in-memory backend: no step other than markAsFinished removes the entry
\* of id while fewer than ttl seconds have passed since the latest
\* register(id), that is while the timer that call armed has time left.
C9_NoExpiryBeforeTtl ==
    [][InMemory =>
         \A id \in Ids :
           (HasEntry(id) /\ ~HasEntry(id)' /\ ret'.op # "markAsFinished") =>
             ~\E t \in timeouts :
                t.requestId = id /\ t.handle = regs[id] /\ t.remaining > 0]_vars

\* C10: a call of associateDbIdentifier(id, op) on an id with no entry throws
\* (in-memory) or rejects (redis) and changes neither the map, the timers nor
\* the store.
C10_AssociateMissingFails ==
    [][\A id \in Ids, op \in DbIds :
         (/\ ~HasEntry(id)
          /\ \/ MemAssociateDbIdentifier(id, op)
             \/ RedisAssociateDbIdentifier(id, op)) =>
           /\ ret' = Threw("associateDbIdentifier", id)
           /\ UNCHANGED <<entries, timeouts, timers, store, calls>>]_vars

\* C10 witness: associateDbIdentifier has thrown for an id that was registered
\* before and whose entry is gone.
C10_Witness ==
    \E id \in Ids :
      /\ ret = Threw("associateDbIdentifier", id)
      /\ regs[id] > 0
      /\ ~HasEntry(id)

\* C11: a call of associateDbIdentifier(id, op) on an id whose entry is
\* 'cancelling' or 'cancelled' fails: it throws (in-memory) or rejects (redis),
\* attaches nothing to the entry and starts no write to the store.
C11_AssociateNonActiveFails ==
    [][\A id \in Ids, op \in DbIds :
         (/\ HasEntry(id)
          /\ Status(id) \in {"cancelling", "cancelled"}
          /\ \/ MemAssociateDbIdentifier(id, op)
             \/ RedisAssociateDbIdentifier(id, op)) =>
           /\ ret' = Threw("associateDbIdentifier", id)
           /\ UNCHANGED <<entries, store, calls>>]_vars

\* C12: every call of markAsFinished(id), on a tracked id, on an id finished
\* before or on an id never registered, returns without throwing and leaves no
\* entry for id, so that getStatus(id) is 'finished'; on an id with no entry it
\* changes nothing.
C12_MarkAsFinishedIdempotent ==
    [][\A id \in Ids :
         (MemMarkAsFinished(id) \/ RedisMarkAsFinished(id)) =>
           /\ ret' = Returned("markAsFinished", id, "void")
           /\ ~HasEntry(id)'
           /\ Status(id)' = "finished"
           /\ ~HasEntry(id) =>
                UNCHANGED <<entries, timeouts, timers, store, calls, hookLog>>]_vars

\* C12 witness: markAsFinished has returned on an id that was registered, and
\* no entry is left.
C12_Witness ==
    \E id \in Ids :
      /\ ret = Returned("markAsFinished", id, "void")
      /\ regs[id] > 0
      /\ ~HasEntry(id)
      /\ Status(id) = "finished"

\* C13: a call of markForCancellation(id) that finds no entry, or an entry
\* whose status is not 'active', returns without throwing, invokes no hook,
\* leaves the entry as it is and starts no write to the store.
C13_MarkNonActiveNoOp ==
    [][\A id \in Ids :
         (/\ ~HasEntry(id) \/ Status(id) # "active"
          /\ MemMarkForCancellation(id) \/ RedisMarkForCancellation(id)) =>
           /\ ret' = Returned("markForCancellation", id, "void")
           /\ UNCHANGED <<entries, timeouts, timers, store, calls, hookLog>>]_vars

\* C13 witness: redis backend: markForCancellation has returned at once on an
\* entry another call had set to 'cancelling', with the hook invoked once.
C13_Witness ==
    /\ Redis
    /\ \E id \in Ids :
         /\ ret = Returned("markForCancellation", id, "void")
         /\ Status(id) = "cancelling"
         /\ Len(hookLog[id]) = 1

\* C14: in-memory backend: an entry of id, whatever its status, that no
\* markAsFinished removes is removed by an expiry timer once its time has
\* passed: from every state with an entry for id a state follows in which
\* getStatus(id) is 'finished'.
C14_EntryEventuallyExpires ==
    \A id \in Ids, status \in {"active", "cancelling", "cancelled"} :
      (HasEntry(id) /\ Status(id) = status) ~> (Status(id) = "finished")

\* C14 witness: the expiry timer has removed the entry of an id registered
\* once while the entry was 'cancelling', the hook still pending.
C14_Witness ==
    \E id \in Ids :
      /\ ret = Expired(id)
      /\ regs[id] = 1
      /\ HookPending(id)
      /\ ~HasEntry(id)
      /\ timeouts = {}

\* C15: in-memory backend: for register(id), associateDbIdentifier(id, op) one
\* or more times and then markForCancellation(id), with no other call in
\* flight: the call invokes the hook once, with the identifier attached last,
\* and when the hook has settled the call returns with the entry 'cancelled'
\* and the hook still invoked once.
C15_SequenceInvokesHookOnce ==
    [][InMemory =>
         \A id \in Ids :
           /\ (/\ InFlight = 0
               /\ Status(id) = "active"
               /\ entries[id].dbIdentifier # Undefined
               /\ MemMarkForCancellation(id)) =>
                 hookLog'[id] = <<entries[id].dbIdentifier>>
           /\ \A call \in BagToSet(calls), outcome \in HookOutcomes :
                (/\ InFlight = 1
                 /\ call.requestId = id
                 /\ entries[id].ref = call.entry.ref
                 /\ MemHookSettles(call, outcome)) =>
                   /\ ret' = Returned("markForCancellation", id, "void")
                   /\ Status(id)' = "cancelled"
                   /\ Len(hookLog'[id]) = 1]_vars

\* C16: once markAsFinished(id) was called before any markForCancellation(id)
\* since the latest register(id), the hook is not invoked for that registration,
\* whatever is called afterwards, and getStatus(id) is 'finished'.
C16_FinishedFirstNoHook ==
    \A id \in Ids :
      first[id] = "markAsFinished" =>
        /\ hookLog[id] = <<>>
        /\ Status(id) = "finished"

\* C17: in every state, an entry that is 'cancelling' and has an identifier
\* attached has had the hook invoked exactly once since it was registered, with
\* that identifier, also after an associateDbIdentifier call made while the
\* entry was 'cancelling'.
C17_CancellingHookInvokedOnce ==
    \A id \in Ids :
      (/\ HasEntry(id)
       /\ Status(id) = "cancelling"
       /\ DbIdentifier(id) # Undefined) =>
        hookLog[id] = <<DbIdentifier(id)>>

\* C19: in-memory backend: when markAsFinished(id) has run on a tracked id, no
\* expiry timer of id is pending any more, so none armed before the finish is
\* left to fire on an entry a later register(id) creates.
C19_FinishClearsEveryTimer ==
    [][InMemory =>
         \A id \in Ids :
           (HasEntry(id) /\ MemMarkAsFinished(id)) =>
             ~\E t \in timeouts' : t.requestId = id]_vars

C21_EveryWriteRefreshesExpiry ==
    [][Redis =>
         \A id \in Ids :
           (\/ RedisRegister(id)
            \/ \E call \in BagToSet(calls) :
                 /\ call.requestId = id
                 /\ \/ RedisSetCancelling(call)
                    \/ RedisSetCancelled(call)
                    \/ RedisAssociateSet(call)) =>
             /\ store'[<<"unreq:", id>>].value # Null
             /\ store'[<<"unreq:", id>>].ttl = config.ttlSeconds
             /\ \A k \in Keys \ {<<"unreq:", id>>} : store'[k] = store[k]]_vars

\* C21 witness: markForCancellation has returned after its 'cancelled' write
\* and the hook, and the key has the full ttlSeconds to live.
C21_Witness ==
    /\ Redis
    /\ \E id \in Ids :
         /\ ret = Returned("markForCancellation", id, "void")
         /\ Status(id) = "cancelled"
         /\ Len(hookLog[id]) = 1
         /\ store[getKey(id)].ttl = config.ttlSeconds

\* a step of an operation made for requestId: a call of one of the four
\* mutating methods, a later step of such a call, or the expiry timer
OperationOn(requestId) ==
    \/ MemRegister(requestId)
    \/ MemMarkForCancellation(requestId)
    \/ \E op \in DbIds : MemAssociateDbIdentifier(requestId, op)
    \/ MemMarkAsFinished(requestId)
    \/ \E t \in timeouts : t.requestId = requestId /\ MemTimerFire(t)
    \/ RedisRegister(requestId)
    \/ RedisMarkForCancellation(requestId)
    \/ \E op \in DbIds : RedisAssociateDbIdentifier(requestId, op)
    \/ RedisMarkAsFinished(requestId)
    \/ \E call \in BagToSet(calls) :
         /\ call.requestId = requestId
         /\ \/ \E outcome \in HookOutcomes : MemHookSettles(call, outcome)
            \/ \E outcome \in HookOutcomes : RedisHookSettles(call, outcome)
            \/ RedisSetCancelling(call)
            \/ RedisSetCancelled(call)
            \/ RedisAssociateSet(call)

\* the entry, the timers and the hook invocations of requestId are the same
\* before and after the step
Untouched(requestId) ==
    /\ entries'[requestId] = entries[requestId]
    /\ timers'[requestId] = timers[requestId]
    /\ {t \in timeouts' : t.requestId = requestId} = {t \in timeouts : t.requestId = requestId}
    /\ store'[getKey(requestId)] = store[getKey(requestId)]
    /\ hookLog'[requestId] = hookLog[requestId]

\* C22: a step of register, associateDbIdentifier, markForCancellation,
\* markAsFinished or of the expiry timer for an id A leaves the entry (status
\* and identifier), the pending timers and the hook invocations of every other
\* id B as they were, whatever calls are in flight; and the passing of time
\* removes no record of the store whose own time is not up.
C22_IdsIndependent ==
    [][/\ \A A \in Ids, B \in Ids : (A # B /\ OperationOn(A)) => Untouched(B)
       /\ Tick => \A B \in Ids :
                    /\ entries'[B] = entries[B]
                    /\ store[getKey(B)].ttl > 1 => store'[getKey(B)].value = store[getKey(B)].value]_vars

\* C22 witness: markForCancellation has run its hook for r1 and returned while
\* the entry of r2 is still active with its own identifier and no hook.
C22_Witness ==
    /\ ret = Returned("markForCancellation", "r1", "void")
    /\ Status("r1") = "cancelled"
    /\ hookLog["r1"] = <<"op1">>
    /\ Status("r2") = "active"
    /\ DbIdentifier("r2") = "op2"
    /\ hookLog["r2"] = <<>>

\* C29: redis backend: markAsFinished(id) is one del of the key of id,
\* whatever the status under it, with no call left in flight and nothing else
\* written; getStatus(id) is one get: it writes nothing, leaves no call in
\* flight and returns the status of the stored record, 'finished' when there
\* is none.
C29_DirectDeleteAndRead ==
    [][Redis =>
         \A id \in Ids :
           /\ RedisMarkAsFinished(id) =>
                /\ store' = [store EXCEPT ![<<"unreq:", id>>] = [value |-> Null, ttl |-> 0]]
                /\ calls' = calls
                /\ ret' = Returned("markAsFinished", id, "void")
           /\ RedisGetStatus(id) =>
                /\ store' = store
                /\ calls' = calls
                /\ ret' = Returned("getStatus", id,
                                   IF store[<<"unreq:", id>>].value = Null
                                   THEN "finished"
                                   ELSE store[<<"unreq:", id>>].value[1][2])]_vars

\* C29 witness: getStatus has returned 'cancelling', the status stored while a
\* markForCancellation call awaits the hook.
C29_Witness ==
    /\ Redis
    /\ \E id \in Ids :
         /\ ret = Returned("getStatus", id, "cancelling")
         /\ HookPending(id)
         /\ store[getKey(id)].value # Null

\* C28: markForCancellation orders its steps: the step that invokes the hook
\* for id leaves the status of id 'cancelling', and while a call keeps awaiting
\* the hook the status stays 'cancelling' across every step that is not a
\* finish or an expiry of id (steps after which id has no entry), for an id
\* that was registered once and not again.
C28_CancellingWhileHookRuns ==
    [][\A id \in Ids :
         /\ Len(hookLog'[id]) > Len(hookLog[id]) => Status(id)' = "cancelling"
         /\ (/\ HookPending(id)
             /\ HookPending(id)'
             /\ Status(id) = "cancelling"
             /\ HasEntry(id)'
             /\ regs[id] = 1
             /\ regs'[id] = 1) => Status(id)' = "cancelling"]_vars

\* C23: redis backend: register absorbs a failing store write: a register call
\* never ends in a throw or rejection, whatever the store does.
C23_RegisterAbsorbsWriteFailure ==
    \A id \in Ids : ret # Threw("register", id)

\* C24: redis backend: a store call that fails during markForCancellation(id)
\* makes the call a no-op: the step on which the get or a set fails does not
\* end the call in a rejection, leaves the store as it is and, when it is the
\* second set that fails for a call that is the only one in flight, does not
\* leave the entry 'cancelling'.
C24_StoreFailureIsNoOp ==
    [][\A id \in Ids :
         /\ (\/ RedisMarkGetFails(id)
             \/ \E call \in BagToSet(calls) :
                  /\ call.requestId = id
                  /\ RedisSetCancellingFails(call) \/ RedisSetCancelledFails(call)) =>
              /\ ret' # Threw("markForCancellation", id)
              /\ store' = store
         /\ (\E call \in BagToSet(calls) :
               /\ call.requestId = id
               /\ InFlight = 1
               /\ RedisSetCancelledFails(call)) =>
              RedisStatus(store', id) # "cancelling"]_vars

\* the registry calls the middleware and its listeners made with operation op
CallsOf(op) ==
    {i \in DOMAIN http.registryCalls : http.registryCalls[i].op = op}

\* C25: a throwing lifecycle observer never keeps the middleware from the
\* registry: once the listener of 'close' has run, markForCancellation has
\* been called, and once the listener of 'finish' has run, markAsFinished has
\* been called.
C25_ObserverFailureHarmless ==
    /\ "close" \in http.fired => CallsOf("markForCancellation") # {}
    /\ "finish" \in http.fired => CallsOf("markAsFinished") # {}

\* C26: the boolean result of every hook invocation is recorded or exposed:
\* the state a settling hook leaves (observer events included) tells whether
\* the hook resolved true or false, so no step is both the step of a hook
\* resolving true and the step of the same hook resolving false.
C26_HookResultRecorded ==
    [][\A call \in BagToSet(calls) :
         /\ ~(MemHookSettles(call, "true") /\ MemHookSettles(call, "false"))
         /\ ~(RedisHookSettles(call, "true") /\ RedisHookSettles(call, "false"))]_vars

C27_BackendsInterchangeable ==
    twin.phase = "done" => twin.redis = twin.mem

\* C31: in-memory backend: when the hook settles for an id whose entry is gone
\* (markAsFinished ran or the expiry timer fired while the hook was pending),
\* the entry is not put back: after the step the map holds no entry for the id
\* and getStatus is 'finished'.
C31_SettleDoesNotReinsert ==
    [][\A call \in BagToSet(calls), outcome \in HookOutcomes :
         (/\ MemHookSettles(call, outcome)
          /\ Absent(entries[call.requestId])) =>
           /\ Absent(entries'[call.requestId])
           /\ MemStatus(entries', call.requestId) = "finished"
           /\ timers'[call.requestId] = 0]_vars

\* C31 witness: markAsFinished has just removed the entry of an id whose hook
\* is still pending.
C31_Witness ==
    /\ InMemory
    /\ \E id \in Ids :
         /\ HookPending(id)
         /\ ret = Returned("markAsFinished", id, "void")
         /\ ~HasEntry(id)
         /\ Len(hookLog[id]) = 1

\* C32: in-memory backend: when the hook settles for a call made on an earlier
\* registration of an id that has been registered again since, the new entry
\* is left as it is: status, identifier and timer of the id do not change on
\* that step.
C32_OldHookLeavesNewEntry ==
    [][\A call \in BagToSet(calls), outcome \in HookOutcomes :
         (/\ MemHookSettles(call, outcome)
          /\ ~Absent(entries[call.requestId])
          /\ entries[call.requestId].ref # call.entry.ref) =>
           /\ entries'[call.requestId] = entries[call.requestId]
           /\ timers'[call.requestId] = timers[call.requestId]]_vars

\* C32 witness: a markForCancellation call has returned and left the entry
\* active with no identifier: the entry of a second registration, the call one
\* that awaited the hook of the first.
C32_Witness ==
    /\ InMemory
    /\ \E id \in Ids :
         /\ ret = Returned("markForCancellation", id, "void")
         /\ regs[id] > 1
         /\ Status(id) = "active"
         /\ DbIdentifier(id) = Undefined

\* a markForCancellation call for requestId is suspended at an await
MarkPending(requestId) ==
    \E call \in BagToSet(calls) :
      call.requestId = requestId /\ call.op = "markForCancellation"

\* C33: once markForCancellation has moved an entry to 'cancelled' without
\* invoking the hook (the entry is 'cancelled', no hook was invoked since the
\* register call, no markForCancellation call is in flight), an identifier
\* attached afterwards changes nothing about that: as long as the id is not
\* registered again no step invokes the hook for it and no step makes the
\* entry 'active' again, so that a later markForCancellation is a no-op.
C33_NoHookAfterCancelledWithoutIdentifier ==
    [][\A id \in Ids :
         (/\ Status(id) = "cancelled"
          /\ hookLog[id] = <<>>
          /\ ~MarkPending(id)
          /\ regs'[id] = regs[id]) =>
           /\ hookLog'[id] = <<>>
           /\ Status(id)' # "active"]_vars

\* the store holds, for the id of the call, an identifier that is not the one
\* of the record the call read at its start: an associateDbIdentifier call has
\* written since
LandedSince(call) ==
    /\ DbIdentifier(call.requestId) # Undefined
    /\ DbIdentifier(call.requestId) # call.entry.dbIdentifier

\* C34: redis backend: markForCancellation writes back the record it read at
\* its start.  When an identifier written by associateDbIdentifier has landed
\* since that read, the step that invokes the hook does not invoke it for that
\* identifier, and the final write removes it: once markForCancellation has
\* completed, the stored entry is 'cancelled' and carries the identifier of
\* the record read at the start (none, when that had none).
C34_MarkWritesBackItsSnapshot ==
    [][Redis =>
         \A call \in BagToSet(calls) :
           /\ (RedisSetCancelling(call) /\ LandedSince(call)) =>
                /\ Invoked(call.requestId) # <<DbIdentifier(call.requestId)>>
                /\ DbIdentifier(call.requestId)' # DbIdentifier(call.requestId)
           /\ (RedisSetCancelled(call) /\ LandedSince(call)) =>
                /\ DbIdentifier(call.requestId)' # DbIdentifier(call.requestId)
                /\ DbIdentifier(call.requestId)' = call.entry.dbIdentifier
                /\ Status(call.requestId)' = "cancelled"
                /\ ret' = Returned("markForCancellation", call.requestId, "void")]_vars

\* C34 witness: associateDbIdentifier has just written op2 under an id for
\* which a markForCancellation call that read op1 is about to make its final
\* write, the hook having been invoked for op1.
C34_Witness ==
    /\ Redis
    /\ \E id \in Ids, call \in BagToSet(calls) :
         /\ call.requestId = id
         /\ call.op = "markForCancellation"
         /\ call.pc = "setCancelled"
         /\ call.entry.dbIdentifier = "op1"
         /\ ret = Returned("associateDbIdentifier", id, "void")
         /\ DbIdentifier(id) = "op2"
         /\ hookLog[id] = <<"op1">>

\* the step completes a call op(requestId) and leaves every suspended call
\* suspended
CompletesAtOnce(op, requestId) ==
    /\ ret' = Returned(op, requestId, ret'.value)
    /\ calls' = calls

\* C35: a pending hook blocks nothing and nothing cancels it.  In every state
\* where a markForCancellation(id) call awaits the hook, getStatus,
\* markAsFinished and (while the bound on register calls allows one) register
\* can each be called for any id and return in that same step with the call
\* still awaiting; the hook can settle either way, also when the entry of id
\* is gone; and the awaiting call leaves its await only on the step on which
\* the hook settles.
C35_PendingHookNeverBlocks ==
    [][\A call \in BagToSet(calls) :
         call.pc = "hook" =>
           /\ \A id \in Ids :
                /\ ENABLED (/\ MemGetStatus(id) \/ RedisGetStatus(id)
                            /\ CompletesAtOnce("getStatus", id))
                /\ ENABLED (/\ MemMarkAsFinished(id) \/ RedisMarkAsFinished(id)
                            /\ CompletesAtOnce("markAsFinished", id))
                /\ TotalRegs < MaxRegs =>
                     ENABLED (/\ MemRegister(id) \/ RedisRegister(id)
                              /\ CompletesAtOnce("register", id))
           /\ \A outcome \in HookOutcomes :
                ENABLED (MemHookSettles(call, outcome) \/ RedisHookSettles(call, outcome))
           /\ CopiesIn(call, calls') < CopiesIn(call, calls) =>
                \E outcome \in HookOutcomes :
                  MemHookSettles(call, outcome) \/ RedisHookSettles(call, outcome)]_vars

\* C35 witness: the hook has run to failure for an id whose entry went away
\* (finished or expired) while the hook was pending.
C35_Witness ==
    \E id \in Ids :
      /\ ret = Threw("markForCancellation", id)
      /\ ~HasEntry(id)
      /\ Len(hookLog[id]) = 1

\* C36: with a hook that settles and a store that answers, every
\* markForCancellation call completes: whenever calls of markForCancellation
\* are in flight for an id, a state follows in which none is.  A call that
\* invokes no hook waits for nothing but the store: on the in-memory registry
\* it returns in the step that starts it, on the redis registry a call whose
\* record has no identifier goes from its first set straight to its second.
C36_MarkEventuallyCompletes ==
    /\ \A id \in Ids : MarkPending(id) ~> ~MarkPending(id)
    /\ [][\A id \in Ids :
            /\ (MemMarkForCancellation(id) /\ hookLog'[id] = hookLog[id]) =>
                 ret' = Returned("markForCancellation", id, "void")
            /\ \A call \in BagToSet(calls) :
                 (/\ Redis
                  /\ call.requestId = id
                  /\ call.op = "markForCancellation"
                  /\ call.pc = "setCancelling"
                  /\ call.entry.dbIdentifier = Undefined
                  /\ RedisSetCancelling(call)) =>
                   /\ hookLog'[id] = hookLog[id]
                   /\ [call EXCEPT !.pc = "setCancelled", !.entry.status = "cancelled"]
                        \in BagToSet(calls')]_vars

\* C36 witness: on the redis registry a markForCancellation call that invoked
\* no hook has completed, its two writes done.
C36_Witness ==
    /\ Redis
    /\ \E id \in Ids :
         /\ ret = Returned("markForCancellation", id, "void")
         /\ Status(id) = "cancelled"
         /\ hookLog[id] = <<>>
         /\ ~MarkPending(id)

\* C37: every call of the function withDbCancellation returns has called the
\* wrapped handler, once.
C37_HandlerOncePerRequest ==
    http.handlerCalls = http.wrapperCalls
====
